---------------------------- MODULE Spec2Model ----------------------------
(***************************************************************************)
(* A model of the capsule bindings (src/src/objects/capsule.rs,            *)
(* src/src/capsule.rs) and of the property support of py_class!            *)
(* (src/src/py_class/attributes.rs) of rust-cpython.                       *)
(*                                                                         *)
(* The CPython side (PyCapsule_New, PyCapsule_GetPointer, PyCapsule_Import,*)
(* the error indicator, the GIL, reference counts) is modelled from its    *)
(* documented contract; the Rust side is translated from the source.       *)
(***************************************************************************)
EXTENDS Integers, Sequences, FiniteSets, TLC

VARIABLES
    gil,        \* the thread holding the GIL, or NoThread
    err,        \* per thread: CPython's thread-local error indicator
    caps,       \* the capsule objects of the interpreter, by address
    cstrings,   \* the heap of CString buffers allocated by the binding layer
    handles,    \* per capsule: the number of Rust PyCapsule handles to it
    attrs,      \* the attributes of the importable modules
    last,       \* the last operation: its inputs, its C call and its result
    ob_refcnt,  \* attribute wrappers: reference counts of slf and value
    field,      \* attribute wrappers: the state of the object behind slf
    acall,      \* attribute wrappers: the last wrapper call and its outcome
    tp_getset,  \* per type object: its tp_getset field (a table address)
    tp_flags,   \* per type object: the other fields of the type object
    tables,     \* the heap of boxed PyGetSetDef slices
    tcall       \* the last expansion of py_class_init_attributes!

capsVars == <<gil, err, caps, cstrings, handles, attrs, last>>
attrVars == <<ob_refcnt, field, acall>>
typeVars == <<tp_getset, tp_flags, tables, tcall>>
vars == <<gil, err, caps, cstrings, handles, attrs, last,
          ob_refcnt, field, acall, tp_getset, tp_flags, tables, tcall>>

---------------------------------------------------------------------------
(* Bounds of the model *)

NThreads == 2
MaxCaps == 2
MaxBufs == 2

(* Program constants *)

NULL == 0
NUL == 0
DOT == 46
NoThread == NULL

Threads == 1..NThreads
CapsIds == 1..MaxCaps
BufIds == 1..MaxBufs
\* Two distinct non-null native addresses handed to capsules
DataPtrs == {1, 2}
Pointers == {NULL} \cup DataPtrs

\* "a", "b", "c" as identifiers
IdA == <<97>>
IdB == <<98>>
IdC == <<99>>

\* The modules the interpreter can import, and the attribute names used
Modules == {IdA}
AttrNames == {IdB, IdC}
Slots == Modules \X AttrNames

\* Names given as impl Into<Vec<u8>>: "a.b", "a.c", "a.b\0", "a\0.b"
ByteNames == { <<97, DOT, 98>>, <<97, DOT, 99>>,
               <<97, DOT, 98, NUL>>, <<97, NUL, DOT, 98>> }

---------------------------------------------------------------------------
(* Strings *)

HasNul(bytes) == \E i \in 1..Len(bytes) : bytes[i] = NUL

\* Index of the first occurrence of b in s, or Len(s)+1
RECURSIVE FirstIndex(_, _, _)
FirstIndex(s, b, i) ==
    IF i > Len(s) THEN Len(s) + 1
    ELSE IF s[i] = b THEN i
    ELSE FirstIndex(s, b, i + 1)

\* What C reads from a char*: the bytes before the first 0 byte
c_str(buf) == SubSeq(buf, 1, FirstIndex(buf, NUL, 1) - 1)

\* A conversion that does not look for 0 bytes
CString_new_unchecked(bytes) == [ok |-> TRUE, buf |-> Append(bytes, NUL)]

\* CString::new: NulError when the bytes hold a 0 byte, else the bytes with
\* the terminator appended
CString_new(bytes) ==
    IF HasNul(bytes) THEN [ok |-> FALSE, buf |-> <<>>]
    ELSE [ok |-> TRUE, buf |-> Append(bytes, NUL)]

\* CStr::from_bytes_with_nul_unchecked: the bytes as they are
from_bytes_with_nul_unchecked(bytes) == bytes

\* The &CStr values callers pass: terminated, no interior 0 byte
CStrNames == { Append(n, NUL) : n \in {m \in ByteNames : ~HasNul(m)} }

\* The pieces of s between the occurrences of DOT
RECURSIVE SplitDots(_)
SplitDots(s) ==
    LET i == FirstIndex(s, DOT, 1)
    IN  IF i > Len(s) THEN <<s>>
        ELSE <<SubSeq(s, 1, i - 1)>> \o SplitDots(SubSeq(s, i + 1, Len(s)))

\* concat!($(stringify!($capsmod), "."),*, stringify!($capsname), "\0")
RECURSIVE JoinMods(_)
JoinMods(mods) ==
    IF mods = <<>> THEN <<>>
    ELSE Head(mods) \o <<DOT>> \o JoinMods(Tail(mods))


---------------------------------------------------------------------------
(* The interpreter: capsule objects, modules, the error indicator *)

NoCaps == [live |-> FALSE, pointer |-> NULL, name |-> 0, refcnt |-> 0,
           made_ptr |-> NULL, made_name |-> <<>>]
NoBuf == [live |-> FALSE, buf |-> <<>>]

\* The result of a C call: its return value and the exception it raised
CRet(ret, exc) == [ret |-> ret, exc |-> exc]

FreeCaps == {c \in CapsIds : ~caps[c].live}
FreeBufs == {b \in BufIds : ~cstrings[b].live}
Lowest(S) == CHOOSE x \in S : \A y \in S : x <= y

\* name_matches of capsule.c: strcmp of the two char*
name_matches(c, name) == c_str(cstrings[caps[c].name].buf) = c_str(name)

\* PyCapsule_New(pointer, name, destructor): NULL with ValueError for a null
\* pointer, NULL with MemoryError when the allocation fails, else the new object
PyCapsule_New(pointer, name, oom) ==
    IF pointer = NULL THEN CRet(NULL, "ValueError")
    ELSE IF oom THEN CRet(NULL, "MemoryError")
    ELSE CRet(Lowest(FreeCaps), "none")

\* PyCapsule_GetPointer(capsule, name): the pointer, or NULL with ValueError
\* when the object is no legal capsule or the name does not match
PyCapsule_GetPointer(c, name) ==
    IF ~(c \in CapsIds /\ caps[c].live /\ caps[c].pointer /= NULL)
    THEN CRet(NULL, "ValueError")
    ELSE IF ~name_matches(c, name) THEN CRet(NULL, "ValueError")
    ELSE CRet(caps[c].pointer, "none")

\* PyImport_ImportModule: object 0 is "no object", a module is itself
PyImport_ImportModule(modname) ==
    IF modname = <<>> THEN [kind |-> "null", mod |-> <<>>, id |-> 0, exc |-> "ValueError"]
    ELSE IF modname \in Modules THEN [kind |-> "module", mod |-> modname, id |-> 0, exc |-> "none"]
    ELSE [kind |-> "null", mod |-> <<>>, id |-> 0, exc |-> "ImportError"]

\* PyObject_GetAttrString on a module or a capsule
PyObject_GetAttrString(obj, attr) ==
    IF obj.kind = "module" /\ <<obj.mod, attr>> \in Slots /\ attrs[<<obj.mod, attr>>] /= 0
    THEN [kind |-> "capsule", mod |-> <<>>, id |-> attrs[<<obj.mod, attr>>], exc |-> "none"]
    ELSE [kind |-> "null", mod |-> <<>>, id |-> 0, exc |-> "AttributeError"]

\* The loop of PyCapsule_Import over the pieces of the dotted name
RECURSIVE WalkAttrs(_, _)
WalkAttrs(obj, parts) ==
    IF obj.kind = "null" \/ parts = <<>> THEN obj
    ELSE WalkAttrs(PyObject_GetAttrString(obj, Head(parts)), Tail(parts))

\* PyCapsule_IsValid(object, name)
PyCapsule_IsValid(obj, name) ==
    /\ obj.kind = "capsule"
    /\ caps[obj.id].live
    /\ caps[obj.id].pointer /= NULL
    /\ name_matches(obj.id, name)

\* PyCapsule_Import(name, no_block): imports the module, walks the attributes
\* and returns the pointer of the capsule found when its name is the name
\* given; NULL with an exception otherwise
PyCapsule_Import(name) ==
    LET parts == SplitDots(c_str(name))
        obj   == WalkAttrs(PyImport_ImportModule(Head(parts)), Tail(parts))
    IN  IF obj.kind = "null" THEN CRet(NULL, obj.exc)
        ELSE IF PyCapsule_IsValid(obj, name) THEN CRet(caps[obj.id].pointer, "none")
        ELSE CRet(NULL, "AttributeError")

\* A failing C call sets the error indicator of the current thread state
SetIndicator(ind, r) == IF r.ret = NULL THEN r.exc ELSE ind

\* PyErr::fetch(py): takes the exception out of the error indicator
PyErr_fetch(ind) == [exc |-> ind, ind |-> "none"]

\* Py_DECREF of a capsule: capsule_dealloc at zero (no destructor was given)
Py_DECREF(cm, c) ==
    IF cm[c].refcnt = 1 THEN [cm EXCEPT ![c] = NoCaps]
    ELSE [cm EXCEPT ![c].refcnt = @ - 1]

Py_INCREF(cm, c) == [cm EXCEPT ![c].refcnt = @ + 1]

---------------------------------------------------------------------------
(* The record of the last operation *)

NoCall == [fn |-> "none", ret |-> NULL, exc |-> "none", held |-> TRUE]
CCall(fn, r, t) == [fn |-> fn, ret |-> r.ret, exc |-> r.exc, held |-> (gil = t)]

Rec(op, t, name, ptr, obj, ccall, result, value, exc, fetched) ==
    [op |-> op, thread |-> t, name |-> name, ptr |-> ptr, obj |-> obj,
     ccall |-> ccall, result |-> result, value |-> value, exc |-> exc,
     fetched |-> fetched, args |-> <<>>]

Running == last.result /= "Crash"

---------------------------------------------------------------------------
(* The GIL. Python::acquire_gil gives the token py; dropping the GILGuard
   releases the lock. An operation that takes py runs only with gil = t. *)

acquire_gil(t) ==
    /\ Running
    /\ UNCHANGED <<attrVars, typeVars>>
    /\ gil = NoThread
    /\ gil' = t
    /\ last' = Rec("acquire_gil", t, <<>>, NULL, 0, NoCall, "Ok", NULL, "none", FALSE)
    /\ UNCHANGED <<err, caps, cstrings, handles, attrs>>

release_gil(t) ==
    /\ Running
    /\ UNCHANGED <<attrVars, typeVars>>
    /\ gil = t
    /\ gil' = NoThread
    /\ last' = Rec("release_gil", t, <<>>, NULL, 0, NoCall, "Ok", NULL, "none", FALSE)
    /\ UNCHANGED <<err, caps, cstrings, handles, attrs>>

---------------------------------------------------------------------------
(* PyCapsule::new and PyCapsule::new_data *)

\* name dropped at the end of PyCapsule::new: the buffer is freed
forget_name_dropped(heap, b) == [heap EXCEPT ![b] = NoBuf]

\* mem::forget(name): the buffer is left allocated
forget_name(heap, b) == heap

\* &mut data as *mut _ as *mut c_void: the address of the local reference
cast_data_of_local(data) == CHOOSE p \in DataPtrs : p /= data

\* data as *mut T as *mut c_void: the address of the referent
cast_data(data) == data

\* The body of PyCapsule::new; op is the entry point the caller used and given
\* the address the caller gave, both kept for the record of the operation
new_body(op, t, given, pointer, name, oom) ==
    LET cs == CString_new(name)
        b  == Lowest(FreeBufs)
        r  == PyCapsule_New(pointer, b, oom)
        cc == CCall("PyCapsule_New", r, t)
        alloc == [cstrings EXCEPT ![b] = [live |-> TRUE, buf |-> cs.buf]]
    IN  IF ~cs.ok
        THEN /\ last' = Rec(op, t, name, pointer, 0, NoCall, "NulError", NULL, "none", FALSE)
             /\ UNCHANGED <<gil, err, caps, cstrings, handles, attrs>>
        ELSE IF FreeBufs = {} \/ FreeCaps = {}
        THEN FALSE
        ELSE IF r.ret = NULL
        THEN \* cast_from_owned_ptr_or_panic: PyErr_Print, then panic; the
             \* unwinding drops name
             /\ last' = Rec(op, t, name, pointer, 0, cc, "Panic", NULL, "none", FALSE)
             /\ err' = [err EXCEPT ![t] = "none"]
             /\ UNCHANGED <<gil, caps, cstrings, handles, attrs>>
        ELSE /\ caps' = [caps EXCEPT ![r.ret] =
                           [live |-> TRUE, pointer |-> pointer, name |-> b,
                            refcnt |-> 1, made_ptr |-> given, made_name |-> name]]
             /\ cstrings' = forget_name(alloc, b)
             /\ handles' = [handles EXCEPT ![r.ret] = 1]
             /\ last' = Rec(op, t, name, pointer, r.ret, cc, "Ok", r.ret, "none", FALSE)
             /\ UNCHANGED <<gil, err, attrs>>

PyCapsule_new(t, pointer, name, oom) ==
    /\ Running
    /\ UNCHANGED <<attrVars, typeVars>>
    /\ gil = t
    /\ new_body("new", t, pointer, pointer, name, oom)

PyCapsule_new_data(t, data, name, oom) ==
    /\ Running
    /\ UNCHANGED <<attrVars, typeVars>>
    /\ gil = t
    /\ new_body("new_data", t, data, cast_data(data), name, oom)

---------------------------------------------------------------------------
(* PyCapsule::data_ref and PyCapsule::data_ref_cstr: &self, no py token *)

\* The outcomes of &*(PyCapsule_GetPointer(self.as_ptr(), name.as_ptr()) as *const T).
\* A failing PyCapsule_GetPointer sets the error indicator of the current
\* thread state: of the thread holding the GIL, and with no such thread it
\* reads a null thread state. A null return makes a null reference, which is
\* undefined: the build either hands the null address on or faults.
data_ref_cstr_outcomes(t, c, name) ==
    LET r  == PyCapsule_GetPointer(c, name)
        cc == CCall("PyCapsule_GetPointer", r, t)
    IN  IF r.ret /= NULL
        THEN {[result |-> "Ok", value |-> r.ret, ccall |-> cc, err |-> err]}
        ELSE IF gil = NoThread
        THEN {[result |-> "Crash", value |-> NULL, ccall |-> cc, err |-> err]}
        ELSE {[result |-> k, value |-> NULL, ccall |-> cc,
               err |-> [err EXCEPT ![gil] = r.exc]] : k \in {"Ok", "Crash"}}

PyCapsule_data_ref_cstr(t, c, name) ==
    /\ Running
    /\ UNCHANGED <<attrVars, typeVars>>
    /\ handles[c] > 0
    /\ \E o \in data_ref_cstr_outcomes(t, c, name) :
          /\ last' = Rec("data_ref_cstr", t, name, NULL, c, o.ccall, o.result, o.value,
                         "none", FALSE)
          /\ err' = o.err
    /\ UNCHANGED <<gil, caps, cstrings, handles, attrs>>

PyCapsule_data_ref(t, c, name) ==
    /\ Running
    /\ UNCHANGED <<attrVars, typeVars>>
    /\ handles[c] > 0
    /\ LET cs == CString_new(name)
       IN  IF ~cs.ok
           THEN /\ last' = Rec("data_ref", t, name, NULL, c, NoCall, "NulError", NULL,
                               "none", FALSE)
                /\ err' = err
           ELSE \E o \in data_ref_cstr_outcomes(t, c, cs.buf) :
                   /\ last' = Rec("data_ref", t, name, NULL, c, o.ccall, o.result, o.value,
                                  "none", FALSE)
                   /\ err' = o.err
    /\ UNCHANGED <<gil, caps, cstrings, handles, attrs>>

---------------------------------------------------------------------------
(* Importing a capsule by name *)

\* as *const T, mem::transmute: the same address
cast_ptr(p) == p

\* An import that hands on whatever PyCapsule_Import returned
import_unchecked(t, name) ==
    LET r   == PyCapsule_Import(name)
        ind == SetIndicator(err[t], r)
    IN  [result |-> "Ok", value |-> r.ret, exc |-> "none",
         fetched |-> FALSE, ind |-> ind, ccall |-> CCall("PyCapsule_Import", r, t)]

\* PyCapsule::import(py, name)
import(t, name) ==
    LET r   == PyCapsule_Import(name)
        ind == SetIndicator(err[t], r)
        cc  == CCall("PyCapsule_Import", r, t)
    IN  IF r.ret = NULL
        THEN [result |-> "Err", value |-> NULL, exc |-> PyErr_fetch(ind).exc,
              fetched |-> TRUE, ind |-> PyErr_fetch(ind).ind, ccall |-> cc]
        ELSE [result |-> "Ok", value |-> r.ret, exc |-> "none",
              fetched |-> FALSE, ind |-> ind, ccall |-> cc]

\* PyCapsule::import_data(py, name): Ok(&*(Self::import(py, name)? as *const T))
import_data(t, name) ==
    LET i == import(t, name)
    IN  IF i.result = "Err" THEN i ELSE [i EXCEPT !.value = cast_ptr(i.value)]

\* capsule::retrieve_capsule(py, name)
retrieve_capsule_body(t, name) ==
    LET r   == PyCapsule_Import(name)
        ind == SetIndicator(err[t], r)
        cc  == CCall("PyCapsule_Import", r, t)
    IN  IF r.ret = NULL
        THEN [result |-> "Err", value |-> NULL, exc |-> PyErr_fetch(ind).exc,
              fetched |-> TRUE, ind |-> PyErr_fetch(ind).ind, ccall |-> cc]
        ELSE [result |-> "Ok", value |-> cast_ptr(r.ret), exc |-> "none",
              fetched |-> FALSE, ind |-> ind, ccall |-> cc]

\* A name built without the separating dots
caps_name_undotted(capsmod, capsname) ==
    from_bytes_with_nul_unchecked(capsname \o <<NUL>>)

\* The name built by py_capsule! and py_capsule_fn!
caps_name(capsmod, capsname) ==
    from_bytes_with_nul_unchecked(JoinMods(capsmod) \o capsname \o <<NUL>>)

\* The function py_capsule!(capsmod, capsname, retrieve, sig) defines
py_capsule_body(t, capsmod, capsname) ==
    LET r   == PyCapsule_Import(caps_name(capsmod, capsname))
        ind == SetIndicator(err[t], r)
        cc  == CCall("PyCapsule_Import", r, t)
    IN  IF r.ret = NULL
        THEN [result |-> "Err", value |-> NULL, exc |-> PyErr_fetch(ind).exc,
              fetched |-> TRUE, ind |-> PyErr_fetch(ind).ind, ccall |-> cc]
        ELSE [result |-> "Ok", value |-> cast_ptr(r.ret), exc |-> "none",
              fetched |-> FALSE, ind |-> ind, ccall |-> cc]

\* The import function py_capsule_fn!(capsmod, capsname, rustmod, sig) defines
py_capsule_fn_body(t, capsmod, capsname) ==
    LET i == import(t, caps_name(capsmod, capsname))
    IN  IF i.result = "Err" THEN i ELSE [i EXCEPT !.value = cast_ptr(i.value)]

\* An import operation as a step of thread t, which holds the token py; args
\* are the identifiers given to the macro that defined the function
ImportStep(op, t, args, name, i) ==
    /\ Running
    /\ UNCHANGED <<attrVars, typeVars>>
    /\ gil = t
    /\ last' = [Rec(op, t, name, NULL, 0, i.ccall, i.result, i.value, i.exc, i.fetched)
                   EXCEPT !.args = args]
    /\ err' = [err EXCEPT ![t] = i.ind]
    /\ UNCHANGED <<gil, caps, cstrings, handles, attrs>>

PyCapsule_import(t, name) == ImportStep("import", t, <<>>, name, import(t, name))

PyCapsule_import_data(t, name) == ImportStep("import_data", t, <<>>, name, import_data(t, name))

retrieve_capsule(t, name) ==
    ImportStep("retrieve_capsule", t, <<>>, name, retrieve_capsule_body(t, name))

py_capsule(t, capsmod, capsname) ==
    ImportStep("py_capsule", t, <<capsmod, capsname>>, caps_name(capsmod, capsname),
               py_capsule_body(t, capsmod, capsname))

py_capsule_fn(t, capsmod, capsname) ==
    ImportStep("py_capsule_fn", t, <<capsmod, capsname>>, caps_name(capsmod, capsname),
               py_capsule_fn_body(t, capsmod, capsname))

---------------------------------------------------------------------------
(* Storing a capsule in a module, dropping a handle *)

\* pymod.add(py, attr, caps): the module takes a reference, the handle given
\* is dropped, the object the attribute held before loses a reference
module_add(t, slot, c) ==
    /\ Running
    /\ UNCHANGED <<attrVars, typeVars>>
    /\ gil = t
    /\ handles[c] > 0
    /\ LET cm1 == Py_INCREF(caps, c)
           cm2 == Py_DECREF(cm1, c)
           old == attrs[slot]
       IN  caps' = IF old /= 0 THEN Py_DECREF(cm2, old) ELSE cm2
    /\ attrs' = [attrs EXCEPT ![slot] = c]
    /\ handles' = [handles EXCEPT ![c] = @ - 1]
    /\ last' = Rec("module_add", t, <<>>, NULL, c, NoCall, "Ok", NULL, "none", FALSE)
    /\ UNCHANGED <<gil, err, cstrings>>

\* Drop of a PyCapsule handle: PyObject's drop takes the GIL and decrements
drop_handle(t, c) ==
    /\ Running
    /\ UNCHANGED <<attrVars, typeVars>>
    /\ gil \in {NoThread, t}
    /\ handles[c] > 0
    /\ caps' = Py_DECREF(caps, c)
    /\ handles' = [handles EXCEPT ![c] = @ - 1]
    /\ last' = Rec("drop", t, <<>>, NULL, c, NoCall, "Ok", NULL, "none", FALSE)
    /\ UNCHANGED <<gil, err, cstrings, attrs>>

\* The identifiers given to py_capsule! and py_capsule_fn!
CapsMods == { <<IdA>>, <<IdB, IdA>> }

---------------------------------------------------------------------------
(* Property wrappers generated by py_class_attribute_impl! *)

MaxRef == 2

\* The borrowed objects: the instance, and the values a caller may assign
Slf == "slf"
PyValues == {"int0", "int1", "str"}
PyObjects == {Slf} \cup PyValues

\* PyObject::from_borrowed_ptr: a new owned reference to a borrowed object
from_borrowed_ptr(rc, o) == [rc EXCEPT ![o] = @ + 1]

\* PyDrop::release_ref: gives an owned reference back
release_ref(rc, o) == [rc EXCEPT ![o] = @ - 1]

\* <i32 as FromPyObject>::extract: the number of an int, TypeError otherwise
extract(value) ==
    IF value = "int0" THEN [ok |-> TRUE, v |-> 0, exc |-> "none"]
    ELSE IF value = "int1" THEN [ok |-> TRUE, v |-> 1, exc |-> "none"]
    ELSE [ok |-> FALSE, v |-> 0, exc |-> "TypeError"]

\* The user's setter method: stores v and returns Ok(()), or returns Err
user_setter(fld, v, ok) ==
    IF ok THEN [ok |-> TRUE, field |-> v, exc |-> "none"]
    ELSE [ok |-> FALSE, field |-> fld, exc |-> "UserError"]

\* The user's getter method: Ok(the field), or Err
user_getter(fld, ok) ==
    IF ok THEN [ok |-> TRUE, v |-> fld, exc |-> "none"]
    ELSE [ok |-> FALSE, v |-> 0, exc |-> "UserError"]

\* A setter wrapper that calls the method whatever the extraction gave
extract_and_then_always(fld, value, ok) ==
    LET m == user_setter(fld, extract(value).v, ok)
    IN  [ok |-> m.ok, field |-> m.field, exc |-> m.exc, calls |-> 1,
         arg |-> extract(value).v]

\* extract(py, &value).and_then(|v| slf.$meth(py, v))
extract_and_then(fld, value, ok) ==
    LET ex == extract(value)
        m  == user_setter(fld, ex.v, ok)
    IN  IF ex.ok
        THEN [ok |-> m.ok, field |-> m.field, exc |-> m.exc, calls |-> 1, arg |-> ex.v]
        ELSE [ok |-> FALSE, field |-> fld, exc |-> ex.exc, calls |-> 0, arg |-> 0]

\* A setter wrapper that forgets the reference to value
setter_release_slf_only(rc, value) == release_ref(rc, Slf)

\* release_ref(slf, py); release_ref(value, py) of the setter wrapper
setter_release(rc, value) == release_ref(release_ref(rc, Slf), value)

\* release_ref(slf, py) of the getter wrapper
getter_release(rc) == release_ref(rc, Slf)

\* UnitCallbackConverter via handle_callback: 0 for Ok(()), and for Err the
\* exception is restored into the error indicator and -1 returned
UnitCallbackConverter(ok) == IF ok THEN 0 ELSE -1

\* PyObjectCallbackConverter via handle_callback: an object for Ok, NULL for Err
PyObjectCallbackConverter(ok) == IF ok THEN 1 ELSE NULL

\* wrap_setter_method(slf, value, closure)
wrap_setter_method(value, ok) ==
    LET rc1 == from_borrowed_ptr(ob_refcnt, Slf)
        rc2 == from_borrowed_ptr(rc1, value)
        ret == extract_and_then(field, value, ok)
        rc3 == setter_release(rc2, value)
    IN  /\ value \in PyValues
        /\ ob_refcnt' = rc3
        /\ field' = ret.field
        /\ acall' = [op |-> "setter", value |-> value, before |-> ob_refcnt,
                     field_before |-> field, held |-> rc2,
                     extracted |-> extract(value).ok, calls |-> ret.calls,
                     arg |-> ret.arg, user_ok |-> ok,
                     ret |-> UnitCallbackConverter(ret.ok), raised |-> ret.exc]
        /\ UNCHANGED <<capsVars, typeVars>>

\* wrap_getter_method(slf, closure)
wrap_getter_method(ok) ==
    LET rc1 == from_borrowed_ptr(ob_refcnt, Slf)
        ret == user_getter(field, ok)
        rc2 == getter_release(rc1)
    IN  /\ ob_refcnt' = rc2
        /\ field' = field
        /\ acall' = [op |-> "getter", value |-> Slf, before |-> ob_refcnt,
                     field_before |-> field, held |-> rc1,
                     extracted |-> TRUE, calls |-> 1,
                     arg |-> ret.v, user_ok |-> ok,
                     ret |-> PyObjectCallbackConverter(ret.ok), raised |-> ret.exc]
        /\ UNCHANGED <<capsVars, typeVars>>

\* Other code of the interpreter takes or gives back a reference to an object
interp_incref(o) ==
    /\ ob_refcnt[o] < MaxRef
    /\ ob_refcnt' = [ob_refcnt EXCEPT ![o] = @ + 1]
    /\ acall' = [acall EXCEPT !.op = "none"]
    /\ UNCHANGED <<field, capsVars, typeVars>>

interp_decref(o) ==
    /\ ob_refcnt[o] > 1
    /\ ob_refcnt' = [ob_refcnt EXCEPT ![o] = @ - 1]
    /\ acall' = [acall EXCEPT !.op = "none"]
    /\ UNCHANGED <<field, capsVars, typeVars>>

---------------------------------------------------------------------------
(* py_class_init_attributes!: the tp_getset table of a type object *)

MaxProps == 2

\* Two type objects, and the addresses of their tables
Types == {1, 2}
TableIds == {1, 2}

\* A null char*; a C string is its bytes with the terminator
NullStr == <<>>

NoTable == [live |-> FALSE, entries |-> <<>>]

\* The PyGetSetDef with every member null
NullGetSetDef ==
    [name |-> NullStr, get |-> "None", set |-> "None", doc |-> NullStr, closure |-> NULL]

\* The wrapper an accessor clause defines, and the member it is stored in
ClauseMember(clause) == IF clause = "getter" THEN "get" ELSE "set"
ClauseWrapper(clause) ==
    IF clause = "getter" THEN "wrap_getter_method" ELSE "wrap_setter_method"

\* $( getset_def.$descr_name = Some($descr_expr); )* of the base case
RECURSIVE SetMembers(_, _)
SetMembers(def, descr) ==
    IF descr = <<>> THEN def
    ELSE SetMembers(
            IF Head(descr)[1] = "get" THEN [def EXCEPT !.get = Head(descr)[2]]
            ELSE [def EXCEPT !.set = Head(descr)[2]],
            Tail(descr))

\* py_class_attribute_impl!: the getter and setter arms add a member to the
\* list and recurse on the tail; the base case builds the PyGetSetDef
RECURSIVE py_class_attribute_impl(_, _, _)
py_class_attribute_impl(clauses, name, descr) ==
    IF clauses = <<>>
    THEN SetMembers([NullGetSetDef EXCEPT !.name = name \o <<NUL>>], descr)
    ELSE py_class_attribute_impl(
            Tail(clauses), name,
            Append(descr, <<ClauseMember(Head(clauses)), ClauseWrapper(Head(clauses))>>))

\* The property definitions a class may declare
PropNames == {<<120>>, <<121>>}
PropClauses == { <<"getter">>, <<"getter", "setter">> }
PropDefs == { py_class_attribute_impl(cl, n, <<>>) : n \in PropNames, cl \in PropClauses }

RECURSIVE SeqsUpTo(_, _)
SeqsUpTo(S, n) ==
    IF n = 0 THEN { <<>> }
    ELSE LET shorter == SeqsUpTo(S, n - 1)
         IN  shorter \cup { Append(q, x) : q \in shorter, x \in S }

PropLists == SeqsUpTo(PropDefs, MaxProps)

\* mem::forget(props): the table is left allocated
forget_props(heap, a) == heap

\* A table without the closing entry
getset_table_unterminated(props) == props

\* defs.push($prop) for each property, then the push of the null entry
getset_table(props) == Append(props, NullGetSetDef)

\* py_class_init_attributes!($class, $py, $type_object, { props })
py_class_init_attributes(ty, props) ==
    /\ ty \notin tcall.done
    /\ IF props = <<>>
       THEN UNCHANGED <<tp_getset, tables>>
       ELSE LET a     == Lowest({x \in TableIds : ~tables[x].live})
                alloc == [tables EXCEPT ![a] = [live |-> TRUE, entries |-> getset_table(props)]]
            IN  /\ tp_getset' = [tp_getset EXCEPT ![ty] = a]
                /\ tables' = forget_props(alloc, a)
    /\ tcall' = [op |-> "init", ty |-> ty, props |-> props, done |-> tcall.done \cup {ty},
                 found |-> NullGetSetDef]
    /\ UNCHANGED <<tp_flags, capsVars, attrVars>>

\* The entries the interpreter reads from tp_getset: up to the first null name
RECURSIVE UpToSentinel(_)
UpToSentinel(entries) ==
    IF entries = <<>> \/ Head(entries).name = NullStr THEN <<>>
    ELSE <<Head(entries)>> \o UpToSentinel(Tail(entries))

\* The interpreter looks a descriptor up in the table of a type
descriptor_lookup(ty, name) ==
    /\ ty \in tcall.done
    /\ tp_getset[ty] /= NULL
    /\ LET defs == UpToSentinel(tables[tp_getset[ty]].entries)
           hits == {i \in 1..Len(defs) : defs[i].name = name \o <<NUL>>}
       IN  tcall' = [tcall EXCEPT !.op = "lookup", !.ty = ty, !.props = <<>>,
                                  !.found = IF hits = {} THEN NullGetSetDef
                                            ELSE defs[Lowest(hits)]]
    /\ UNCHANGED <<tp_getset, tp_flags, tables, capsVars, attrVars>>

---------------------------------------------------------------------------
InitCaps ==
    /\ gil = NoThread
    /\ err = [t \in Threads |-> "none"]
    /\ caps = [c \in CapsIds |-> NoCaps]
    /\ cstrings = [b \in BufIds |-> NoBuf]
    /\ handles = [c \in CapsIds |-> 0]
    /\ attrs = [s \in Slots |-> 0]
    /\ last = Rec("init", NoThread, <<>>, NULL, 0, NoCall, "Ok", NULL, "none", FALSE)

InitAttr ==
    /\ ob_refcnt = [o \in PyObjects |-> 1]
    /\ field = 0
    /\ acall = [op |-> "none", value |-> Slf, before |-> ob_refcnt,
                field_before |-> 0, held |-> ob_refcnt, extracted |-> TRUE,
                calls |-> 0, arg |-> 0, user_ok |-> TRUE, ret |-> 0, raised |-> "none"]

InitType ==
    /\ tp_getset = [ty \in Types |-> NULL]
    /\ tp_flags = [ty \in Types |-> "Py_TPFLAGS_DEFAULT"]
    /\ tables = [a \in TableIds |-> NoTable]
    /\ tcall = [op |-> "none", ty |-> 0, props |-> <<>>, done |-> {}, found |-> NullGetSetDef]

Init == InitCaps /\ InitAttr /\ InitType

\* A program with one thread using the capsule API
MainThreads == {Lowest(Threads)}

NextCaps ==
    \/ \E t \in MainThreads : acquire_gil(t)
    \/ \E t \in MainThreads : release_gil(t)
    \/ \E t \in MainThreads, p \in Pointers, n \in ByteNames, oom \in BOOLEAN :
          PyCapsule_new(t, p, n, oom)
    \/ \E t \in MainThreads, d \in DataPtrs, n \in ByteNames, oom \in BOOLEAN :
          PyCapsule_new_data(t, d, n, oom)
    \/ \E t \in MainThreads, c \in CapsIds, n \in ByteNames : PyCapsule_data_ref(t, c, n)
    \/ \E t \in MainThreads, c \in CapsIds, n \in CStrNames : PyCapsule_data_ref_cstr(t, c, n)
    \/ \E t \in MainThreads, n \in CStrNames : PyCapsule_import(t, n)
    \/ \E t \in MainThreads, n \in CStrNames : PyCapsule_import_data(t, n)
    \/ \E t \in MainThreads, n \in CStrNames : retrieve_capsule(t, n)
    \/ \E t \in MainThreads, m \in CapsMods, a \in AttrNames : py_capsule(t, m, a)
    \/ \E t \in MainThreads, m \in CapsMods, a \in AttrNames : py_capsule_fn(t, m, a)
    \/ \E t \in MainThreads, s \in Slots, c \in CapsIds : module_add(t, s, c)
    \/ \E t \in MainThreads, c \in CapsIds : drop_handle(t, c)

SpecCaps == Init /\ [][NextCaps]_vars

\* A program whose threads all use the capsule API
NextThreads ==
    \/ \E t \in Threads : acquire_gil(t)
    \/ \E t \in Threads : release_gil(t)
    \/ \E t \in Threads, p \in Pointers, n \in ByteNames, oom \in BOOLEAN :
          PyCapsule_new(t, p, n, oom)
    \/ \E t \in Threads, d \in DataPtrs, n \in ByteNames, oom \in BOOLEAN :
          PyCapsule_new_data(t, d, n, oom)
    \/ \E t \in Threads, c \in CapsIds, n \in ByteNames : PyCapsule_data_ref(t, c, n)
    \/ \E t \in Threads, c \in CapsIds, n \in CStrNames : PyCapsule_data_ref_cstr(t, c, n)
    \/ \E t \in Threads, n \in CStrNames : PyCapsule_import(t, n)
    \/ \E t \in Threads, n \in CStrNames : PyCapsule_import_data(t, n)
    \/ \E t \in Threads, n \in CStrNames : retrieve_capsule(t, n)
    \/ \E t \in Threads, m \in CapsMods, a \in AttrNames : py_capsule(t, m, a)
    \/ \E t \in Threads, m \in CapsMods, a \in AttrNames : py_capsule_fn(t, m, a)
    \/ \E t \in Threads, s \in Slots, c \in CapsIds : module_add(t, s, c)
    \/ \E t \in Threads, c \in CapsIds : drop_handle(t, c)

SpecThreads == Init /\ [][NextThreads]_vars

NextAttr ==
    \/ \E v \in PyValues, ok \in BOOLEAN : wrap_setter_method(v, ok)
    \/ \E ok \in BOOLEAN : wrap_getter_method(ok)
    \/ \E o \in PyObjects : interp_incref(o)
    \/ \E o \in PyObjects : interp_decref(o)

SpecAttr == Init /\ [][NextAttr]_vars

NextType ==
    \/ \E ty \in Types, props \in PropLists : py_class_init_attributes(ty, props)
    \/ \E ty \in Types, n \in PropNames : descriptor_lookup(ty, n)

SpecType == Init /\ [][NextType]_vars

---------------------------------------------------------------------------
(* Properties of the capsule operations *)

ImportOps == {"import", "import_data", "retrieve_capsule", "py_capsule", "py_capsule_fn"}

\* The dotted path of a module attribute
Path(s) == s[1] \o <<DOT>> \o s[2]

\* C1: an import operation returns Err exactly when PyCapsule_Import returned
\* NULL, the error holds the exception taken out of the error indicator, and a
\* non-null return is handed on as Ok with the same address and no fetch.
C1_ImportErrIffNull ==
    last.op \in ImportOps =>
        /\ last.ccall.fn = "PyCapsule_Import"
        /\ (last.result = "Err") <=> (last.ccall.ret = NULL)
        /\ last.result = "Err" =>
              /\ last.fetched
              /\ last.exc = last.ccall.exc
              /\ last.exc /= "none"
              /\ err[last.thread] = "none"
        /\ last.ccall.ret /= NULL =>
              /\ last.result = "Ok"
              /\ last.value = last.ccall.ret
              /\ ~last.fetched

C1_Witness ==
    /\ last.op = "import"
    /\ last.result = "Err"
    /\ last.exc = "AttributeError"
    /\ last.ccall.ret = NULL

\* C2: a capsule created with the name "M.A" and stored as attribute A of
\* module M is found by an import of "M.A", which returns Ok with the pointer
\* given at creation; a capsule stored there under another name of its own is
\* not returned.
C2_ImportByDottedName ==
    last.op \in ImportOps =>
        \A s \in Slots :
            (/\ attrs[s] /= 0
             /\ \/ last.args = <<>> /\ c_str(last.name) = Path(s)
                \/ last.args = << <<s[1]>>, s[2] >>) =>
                IF caps[attrs[s]].made_name = Path(s)
                THEN last.result = "Ok" /\ last.value = caps[attrs[s]].made_ptr
                ELSE ~(last.result = "Ok" /\ last.value = caps[attrs[s]].made_ptr)

C2_Witness ==
    /\ last.op = "py_capsule_fn"
    /\ last.result = "Ok"
    /\ \E s \in Slots :
          /\ attrs[s] /= 0
          /\ caps[attrs[s]].made_name = Path(s)
          /\ last.args = << <<s[1]>>, s[2] >>
          /\ last.value = caps[attrs[s]].made_ptr

\* C3: data_ref and data_ref_cstr, called with the name given at creation,
\* return a reference to the address given to new_data or new.
C3_DataRefRoundTrip ==
    /\ (last.op = "data_ref" /\ last.name = caps[last.obj].made_name) =>
          (last.result = "Ok" /\ last.value = caps[last.obj].made_ptr)
    /\ (last.op = "data_ref_cstr" /\ last.name = Append(caps[last.obj].made_name, NUL)) =>
          (last.result = "Ok" /\ last.value = caps[last.obj].made_ptr)

C3_Witness ==
    /\ last.op = "data_ref"
    /\ last.name = caps[last.obj].made_name
    /\ last.result = "Ok"
    /\ last.value = caps[last.obj].made_ptr
    /\ last.value /= NULL

\* C4: new, new_data and data_ref return NulError exactly when the name holds
\* a 0 byte, and then make no C call and leave the interpreter as it was.
C4_NulErrorBeforeAnyCall ==
    [][ last'.op \in {"new", "new_data", "data_ref"} =>
          /\ (last'.result = "NulError") <=> HasNul(last'.name)
          /\ HasNul(last'.name) =>
                /\ last'.ccall.fn = "none"
                /\ UNCHANGED <<gil, err, caps, cstrings, handles, attrs>> ]_vars

C4_Witness ==
    /\ last.op = "new_data"
    /\ last.result = "NulError"
    /\ HasNul(last.name)

\* C5: every capsule operation whose C call returned NULL returns an error
\* value holding the exception the call raised.
C5_NullSurfacesAsErr ==
    (last.ccall.fn /= "none" /\ last.ccall.ret = NULL) =>
        (last.result = "Err" /\ last.exc = last.ccall.exc)

\* C6: every call into the CPython C API is made by the thread holding the GIL.
C6_CallsHoldGil ==
    last.ccall.fn /= "none" => last.ccall.held

\* C10: the buffer holding the name of an existing capsule is allocated and
\* holds the name given at creation, and no step frees or changes a buffer
\* left allocated.
C10_NameOutlivesCapsule ==
    [][ /\ \A c \in CapsIds :
              caps'[c].live =>
                  /\ cstrings'[caps'[c].name].live
                  /\ cstrings'[caps'[c].name].buf = Append(caps'[c].made_name, NUL)
        /\ \A b \in BufIds : cstrings[b].live => cstrings'[b] = cstrings[b] ]_vars

C10_Witness ==
    /\ last.op = "module_add"
    /\ caps[last.obj].live
    /\ handles[last.obj] = 0
    /\ cstrings[caps[last.obj].name].live

---------------------------------------------------------------------------
(* Properties of the attribute wrappers *)

\* C7: after wrap_getter_method and wrap_setter_method return, on every return
\* path, the reference counts of slf and value are what they were before the
\* call, each reference taken with from_borrowed_ptr having been held during
\* the call and given back once.
C7_RefcountBalance ==
    acall.op \in {"getter", "setter"} =>
        /\ ob_refcnt = acall.before
        /\ acall.held[Slf] = acall.before[Slf] + 1
        /\ acall.op = "setter" => acall.held[acall.value] = acall.before[acall.value] + 1

C7_Witness ==
    /\ acall.op = "setter"
    /\ ~acall.extracted
    /\ acall.ret = -1
    /\ ob_refcnt[acall.value] = acall.before[acall.value]
    /\ acall.held[acall.value] = 2

\* C9: the setter method is called exactly when the extraction of the value
\* succeeds, once and with the extracted value; when the extraction fails the
\* object is left as it was and the wrapper reports the extraction error.
C9_SetterCalledIffExtracted ==
    acall.op = "setter" =>
        /\ (acall.calls = 1) <=> extract(acall.value).ok
        /\ acall.calls \in {0, 1}
        /\ acall.calls = 1 => acall.arg = extract(acall.value).v
        /\ (acall.calls = 1 /\ acall.user_ok) => (field = acall.arg /\ acall.ret = 0)
        /\ ~extract(acall.value).ok =>
              /\ field = acall.field_before
              /\ acall.ret = -1
              /\ acall.raised = extract(acall.value).exc

C9_Witness ==
    /\ acall.op = "setter"
    /\ acall.value = "str"
    /\ acall.calls = 0
    /\ acall.ret = -1
    /\ acall.raised = "TypeError"
    /\ field = 1

---------------------------------------------------------------------------
(* Properties of py_class_init_attributes! *)

\* The table a type object points to
TableOf(ty) == tables[tp_getset[ty]]

\* C8: with N >= 1 property definitions tp_getset points to a table of N+1
\* entries, the definitions in declaration order and then one entry with every
\* member null, no earlier entry has a null name, and the table is never freed
\* or changed afterwards; with no definition the type object is left as it was.
C8_GetSetTable ==
    [][ /\ \A ty \in Types :
              tp_getset'[ty] /= NULL =>
                  /\ tables'[tp_getset'[ty]].live
                  /\ LET e == tables'[tp_getset'[ty]].entries
                     IN  /\ Len(e) >= 2
                         /\ e[Len(e)] = NullGetSetDef
                         /\ \A i \in 1..(Len(e) - 1) : e[i].name /= NullStr
        /\ (tcall'.op = "init" /\ tcall'.props /= <<>>) =>
              LET e == tables'[tp_getset'[tcall'.ty]].entries
                  n == Len(tcall'.props)
              IN  /\ tp_getset[tcall'.ty] = NULL
                  /\ tp_getset'[tcall'.ty] /= NULL
                  /\ Len(e) = n + 1
                  /\ SubSeq(e, 1, n) = tcall'.props
                  /\ \A ty \in Types \ {tcall'.ty} : tp_getset'[ty] = tp_getset[ty]
        /\ (tcall'.op = "init" /\ tcall'.props = <<>>) =>
              UNCHANGED <<tp_getset, tp_flags, tables>>
        /\ tp_flags' = tp_flags
        /\ \A a \in TableIds : tables[a].live => tables'[a] = tables[a] ]_vars

C8_Witness ==
    /\ tcall.op = "lookup"
    /\ tcall.found.name = <<121, NUL>>
    /\ tcall.found.set = "wrap_setter_method"
    /\ Len(TableOf(tcall.ty).entries) = 3
    /\ TableOf(tcall.ty).entries[3] = NullGetSetDef
    /\ TableOf(tcall.ty).live

=============================================================================
